---- MODULE Spec2Model ----
(***************************************************************************)
(* LocalMoodLamp firmware (src/src/main.cpp): the animation store in       *)
(* EEPROM, the serial upload/download exchange with its acknowledgement    *)
(* waits, the two-button mode selector and the loop() that composes them.  *)
(*                                                                         *)
(* A byte is a number in 0..255.  A uint32_t is kept as two 16-bit limbs   *)
(* <<hi, lo>> (value hi * 65536 + lo).  An animation is the record         *)
(* [frameCount, frames, time]; frames holds the first frameCount entries   *)
(* of the frames[] array, the only ones any code in main.cpp reads.        *)
(***************************************************************************)
EXTENDS Integers, Sequences, FiniteSets, TLC

\* ---------------------------------------------------------------- constants
SERIAL_PACKET == 142
FRAME_SIZE == 7
META_SIZE == 2
POT_THRES == 20
BTN_TIME == 200
ACK_TIMEOUT == 1000
STREAM_TIMEOUT == 1000
NUM_SLOTS == 6
ACK_BYTE == 255

\* elapsed-time steps between two observations of millis(): one that lands
\* exactly on the debounce time and one that lands exactly on the timeout
TimeSteps == {BTN_TIME, ACK_TIMEOUT}

Slots == 0..(NUM_SLOTS - 1)

\* ASCII
CH_DASH == 45
CH_0 == 48
CH_5 == 53
CH_d == 100

IDLE == "IDLE"
TRIGGERED == "TRIGGERED"
RELEASE == "RELEASE"

\* ------------------------------------------------------------ byte sequences
Take(s, n) == SubSeq(s, 1, n)
Drop(s, n) == SubSeq(s, n + 1, Len(s))

\* least element of a non-empty set of numbers
Least(S) == CHOOSE k \in S : \A j \in S : k <= j

\* index of the first occurrence of b in s, 0 when there is none
IndexOf(s, b) ==
  LET hits == {k \in 1..Len(s) : s[k] = b}
  IN IF hits = {} THEN 0 ELSE Least(hits)

\* ----------------------------------------------------------------- the store
Frame(r, g, b, hi, lo) == [color |-> <<r, g, b>>, time |-> <<hi, lo>>]
Anim(fs) == [frameCount |-> Len(fs), frames |-> fs, time |-> fs[Len(fs)].time]

\* the six default animations, in slot order
Solid_White == Anim(<<Frame(255, 255, 255, 0, 0)>>)
Solid_Red == Anim(<<Frame(255, 0, 0, 0, 0)>>)
Breathe_White ==
  Anim(<<Frame(0, 0, 0, 0, 0), Frame(255, 255, 255, 0, 1500), Frame(0, 0, 0, 0, 3000)>>)
Solid_Green == Anim(<<Frame(0, 255, 0, 0, 0)>>)
Rainbow ==
  Anim(<<Frame(255, 0, 0, 0, 0), Frame(0, 255, 0, 0, 2000), Frame(255, 0, 0, 0, 4000)>>)
Solid_Blue == Anim(<<Frame(0, 0, 255, 0, 0)>>)
defaults ==
  [i \in Slots |->
     CASE i = 0 -> Solid_White
       [] i = 1 -> Solid_Red
       [] i = 2 -> Breathe_White
       [] i = 3 -> Solid_Green
       [] i = 4 -> Rainbow
       [] OTHER -> Solid_Blue]

\* values an uninitialised uint32_t on the stack may hold
GarbageTimes == {<<0, 0>>, <<43981, 4660>>}

\* --------------------------------------------------------------------- codec
\* _a.frames[i] as saveAnimationFromSerial reads it out of buff (1-based seq)
ParseFrameLittle(buff, i) ==
  LET baseIndex == (i * FRAME_SIZE + 2) % 256
  IN [color |-> <<buff[baseIndex + 1], buff[baseIndex + 2], buff[baseIndex + 3]>>,
      time |-> <<buff[baseIndex + 7] * 256 + buff[baseIndex + 6],
                 buff[baseIndex + 5] * 256 + buff[baseIndex + 4]>>]
ParseFrame(buff, i) ==
  LET baseIndex == (i * FRAME_SIZE + 2) % 256
  IN [color |-> <<buff[baseIndex + 1], buff[baseIndex + 2], buff[baseIndex + 3]>>,
      time |-> <<buff[baseIndex + 4] * 256 + buff[baseIndex + 5],
                 buff[baseIndex + 6] * 256 + buff[baseIndex + 7]>>]

\* the animation saveAnimationFromSerial builds from buff; garbage is what
\* _a.time holds when the loop never assigns it (buff[1] = 0)
ParseAnim(buff, garbage) ==
  LET n == buff[2]
      fs == [i \in 1..n |-> ParseFrame(buff, i - 1)]
  IN [frameCount |-> n,
      frames |-> fs,
      time |-> IF n = 0 THEN garbage ELSE fs[n].time]

\* the 7 bytes handleDownloadRequest puts in frameBuff for one frame
FrameBytesLittle(f) ==
  <<f.color[1], f.color[2], f.color[3],
    f.time[2] % 256, f.time[2] \div 256, f.time[1] % 256, f.time[1] \div 256>>
FrameBytes(f) ==
  <<f.color[1], f.color[2], f.color[3],
    f.time[1] \div 256, f.time[1] % 256, f.time[2] \div 256, f.time[2] % 256>>

\* frameBuff of handleDownloadRequest for animation a: byte baseIndex + j of
\* frame number frame, with baseIndex = frame * FRAME_SIZE
frameBuff(a) ==
  [k \in 1..(a.frameCount * FRAME_SIZE) |->
     FrameBytes(a.frames[((k - 1) \div FRAME_SIZE) + 1])[((k - 1) % FRAME_SIZE) + 1]]

\* ------------------------------------------------------------ serial output
\* one item per Serial.print/println/write call sequence; data are bytes
Msg(k, d) == [kind |-> k, data |-> d]
ReadyLine(c) == Msg("ready_", c)
EmptyLine == Msg("empty", <<>>)
DoneLine == Msg("Done", <<>>)
AckFailLine == Msg("ACK Fail", <<>>)
Written(b) == Msg("write", b)

\* --------------------------------------------------------------------- state
VARIABLES
  pc,            \* where the single thread of control is blocked or about to run
  rx,            \* bytes received and not yet read (Serial.available() = Len(rx))
  tx,            \* what the device wrote to Serial in the exchange in progress
  eeprom,        \* the six animation regions of the EEPROM
  putSlot,       \* slot index EEPROM.put was called with in this exchange, or -1
  currentAnim,   \* the animation loaded into the animator
  code,          \* handleSerial: characters read by readStringUntil so far
  rdElapsed,     \* readStringUntil: millis() - _startMillis
  localBuff,     \* handleUploadRequest: bytes stored so far
  buffCount,     \* handleUploadRequest
  overrun,       \* this upload stored a byte at localBuff[SERIAL_PACKET] or beyond
  dl_i,          \* handleDownloadRequest: loop index i
  dl_a,          \* handleDownloadRequest: _a
  ackElapsed,    \* waitForAck: millis() - timer
  ackLog,        \* waitForAck: what each call in this exchange read, -1 on a timeout
  currentState,  \* buttonFSM statics
  changeUP,
  btnElapsed,    \* buttonFSM: millis() - timer, the timer IDLE started
  outputMode,
  lastMode,      \* loop static
  polled,        \* loop() has run its else branch (brightness, buttonFSM, animator.run)
                 \* since the buttons, the knob or the clock last changed
  pot,           \* what analogRead(POT_PIN) returns
  LEDscale,
  prevLEDScale,
  brightness,    \* what strip.setBrightness was last called with
  btnUp,         \* TRUE while the up button is pressed (pin reads LOW)
  btnDown

vars ==
  <<pc, rx, tx, eeprom, putSlot, currentAnim, code, rdElapsed, localBuff, buffCount,
    overrun, dl_i, dl_a, ackElapsed, ackLog, currentState, changeUP, btnElapsed, outputMode,
    lastMode, polled, pot, LEDscale, prevLEDScale, brightness, btnUp, btnDown>>

fsmVars == <<currentState, changeUP, btnElapsed, outputMode, lastMode>>
upVars == <<localBuff, buffCount, overrun>>
dlVars == <<dl_i, dl_a>>
btnVars == <<btnUp, btnDown>>
ledVars == <<LEDscale, prevLEDScale, brightness>>
storeVars == <<eeprom, putSlot, currentAnim>>

NoAnim == [frameCount |-> 0, frames |-> <<>>, time |-> <<0, 0>>]
NoPut == 0 - 1
NoByte == 0 - 1

AckWaits == {"upAck", "dlAck1", "dlAck2", "dlAck3"}

\* EEPROM_Load(index): the animation read from the store; an index past the
\* six regions addresses no record
EEPROM_Load(index) == IF index \in Slots THEN eeprom[index] ELSE NoAnim

\* state after setup() has run on a freshly started program
Init ==
  /\ pc = "loop"
  /\ rx = <<>>
  /\ tx = <<>>
  /\ eeprom = defaults
  /\ putSlot = NoPut
  /\ currentAnim = EEPROM_Load(0)
  /\ code = <<>>
  /\ rdElapsed = 0
  /\ localBuff = <<>>
  /\ buffCount = 0
  /\ overrun = FALSE
  /\ dl_i = 0
  /\ dl_a = NoAnim
  /\ ackElapsed = 0
  /\ ackLog = <<>>
  /\ currentState = IDLE
  /\ changeUP = FALSE
  /\ btnElapsed = 0
  /\ outputMode = 0
  /\ lastMode = 0
  /\ polled = FALSE
  /\ pot = 0
  /\ LEDscale = 0
  /\ prevLEDScale = 0
  /\ brightness = 0
  /\ btnUp = FALSE
  /\ btnDown = FALSE

\* ------------------------------------------------------- leaving an exchange
\* handleSerial() returns to loop(); what its upload buffer and its
\* acknowledgement waits held stays on record until loop() goes on
Return(newTx, newRx) ==
  /\ pc' = "reload"
  /\ tx' = newTx
  /\ rx' = newRx
  /\ code' = <<>>
  /\ rdElapsed' = 0
  /\ dl_i' = 0
  /\ dl_a' = NoAnim
  /\ ackElapsed' = 0
  /\ UNCHANGED <<currentAnim, fsmVars, btnVars>>

\* resetFunc(): control re-enters at address 0, where the start-up code
\* initialises all memory again before it calls setup(); what the upload
\* buffer and the acknowledgement waits held stays on record until setup()
resetFunc(newTx) ==
  /\ pc' = "reset"
  /\ tx' = newTx
  /\ rx' = <<>>
  /\ putSlot' = NoPut
  /\ code' = <<>>
  /\ rdElapsed' = 0
  /\ dl_i' = 0
  /\ dl_a' = NoAnim
  /\ ackElapsed' = 0
  /\ currentState' = IDLE
  /\ changeUP' = FALSE
  /\ btnElapsed' = 0
  /\ outputMode' = 0
  /\ lastMode' = 0
  /\ UNCHANGED <<eeprom, currentAnim, btnVars>>

\* the store after setup(): EEPROM_WriteDefaults() is compiled in only with
\* WRITE_EEPROM, which main.cpp leaves undefined
SetupStoreDefaults(store) == defaults
SetupStore(store) == store

\* setup() after a restart: initial brightness, EEPROM_Load(0), updateAnimation
Setup ==
  /\ pc = "reset"
  /\ pc' = "loop"
  /\ UNCHANGED <<polled, pot>>
  /\ tx' = <<>>
  /\ LEDscale' = pot
  /\ prevLEDScale' = 0
  /\ brightness' = (pot \div 4) % 256
  /\ eeprom' = SetupStore(eeprom)
  /\ currentAnim' = SetupStore(eeprom)[0]
  /\ localBuff' = <<>>
  /\ buffCount' = 0
  /\ overrun' = FALSE
  /\ ackLog' = <<>>
  /\ UNCHANGED <<rx, putSlot, code, rdElapsed, dlVars, ackElapsed, fsmVars, btnVars>>

\* loop(): the index handed to EEPROM_Load after handleSerial() returns is the
\* local currentMode, which that branch never assigns after its initialiser
currentModeAfterSerial == 0

\* loop() after handleSerial(): EEPROM_Load(currentMode), updateAnimation
LoopReload ==
  /\ pc = "reload"
  /\ pc' = "loop"
  /\ UNCHANGED <<polled, pot, ledVars>>
  /\ currentAnim' = EEPROM_Load(currentModeAfterSerial)
  /\ tx' = <<>>
  /\ putSlot' = NoPut
  /\ localBuff' = <<>>
  /\ buffCount' = 0
  /\ overrun' = FALSE
  /\ ackLog' = <<>>
  /\ UNCHANGED <<rx, eeprom, code, rdElapsed, dlVars, ackElapsed, fsmVars, btnVars>>

\* ------------------------------------------------------------- handleSerial
IsUploadCodeLoose(c) == c >= CH_0
IsUploadCode(c) == c >= CH_0 /\ c <= CH_5
IsDownloadCode(c) == c = CH_d

\* code[0]; a String indexed past its end yields 0
FirstChar(c) == IF c = <<>> THEN 0 ELSE c[1]

\* the switch of handleSerial on code c, with newRx left unread
Dispatch(c, newRx) ==
  LET tx1 == Append(tx, ReadyLine(c))
  IN IF IsUploadCode(FirstChar(c))
     THEN /\ pc' = "upMeta"
          /\ tx' = tx1
          /\ rx' = newRx
          /\ code' = c
          /\ rdElapsed' = 0
          /\ localBuff' = <<>>
          /\ buffCount' = META_SIZE
          /\ UNCHANGED <<currentAnim, dlVars, ackElapsed, ackLog, fsmVars, btnVars>>
     ELSE IF IsDownloadCode(FirstChar(c))
     THEN /\ pc' = "dlAck1"
          /\ tx' = tx1
          /\ rx' = newRx
          /\ code' = c
          /\ rdElapsed' = 0
          /\ dl_i' = 0
          /\ dl_a' = EEPROM_Load(0)
          /\ ackElapsed' = 0
          /\ UNCHANGED <<currentAnim, localBuff, buffCount, ackLog, fsmVars, btnVars>>
     ELSE /\ Return(Append(tx1, EmptyLine), newRx)
          /\ UNCHANGED <<localBuff, buffCount, ackLog>>

\* readStringUntil('-') timed out waiting for the next character
ReadTimedOut == rx = <<>> /\ rdElapsed >= STREAM_TIMEOUT

\* Serial.readStringUntil('-') on the characters c read so far and the input
\* in, as far as it can run without blocking, then the rest of handleSerial
ReadStringUntilDash(c, in) ==
  LET k == IndexOf(in, CH_DASH)
  IN IF k > 0
     THEN Dispatch(c \o Take(in, k - 1), Drop(in, k))
     ELSE /\ pc' = "readCode"
          /\ code' = c \o in
          /\ rx' = <<>>
          /\ rdElapsed' = 0
          /\ UNCHANGED <<tx, currentAnim, localBuff, buffCount, dlVars, ackElapsed,
                         ackLog, fsmVars, btnVars>>

\* loop() finds Serial.available() > 0 and calls handleSerial(); arrived is
\* what the host has sent since the last tick
LoopSerial(arrived) ==
  /\ pc = "loop"
  /\ polled' = FALSE
  /\ arrived # <<>> => rx = <<>>
  /\ rx \o arrived # <<>>
  /\ ReadStringUntilDash(<<>>, rx \o arrived)
  /\ UNCHANGED <<eeprom, putSlot, overrun, pot, ledVars>>

\* readStringUntil('-') blocked with no delimiter read: more characters
\* arrive, or the wait for the next one times out
ReadCode(arrived) ==
  /\ pc = "readCode"
  /\ UNCHANGED <<polled, pot, ledVars>>
  /\ IF arrived # <<>>
     THEN /\ ~ReadTimedOut
          /\ ReadStringUntilDash(code, arrived)
     ELSE /\ ReadTimedOut
          /\ Dispatch(code, rx)
  /\ UNCHANGED <<eeprom, putSlot, overrun>>

\* --------------------------------------------------------------- waitForAck
\* the acknowledgement byte arrived may reach a waitForAck that has nothing
\* pending and has not yet timed out
MayArrive(arrived) == arrived # <<>> => rx = <<>> /\ ackElapsed <= ACK_TIMEOUT

\* "ok" | "fail" (a byte other than 0xff) | "timeout" | "wait" (keeps polling),
\* with in the bytes available to it
waitForAckAny(in) ==
  IF in # <<>> THEN "ok"
  ELSE IF ackElapsed > ACK_TIMEOUT THEN "timeout" ELSE "wait"
waitForAckForever(in) ==
  IF in # <<>>
  THEN IF Head(in) = ACK_BYTE THEN "ok" ELSE "fail"
  ELSE "wait"
waitForAck(in) ==
  IF in # <<>>
  THEN IF Head(in) = ACK_BYTE THEN "ok" ELSE "fail"
  ELSE IF ackElapsed > ACK_TIMEOUT THEN "timeout" ELSE "wait"

\* the input after waitForAck returned: it read one byte unless it timed out
AckRxAll(in) == <<>>
AckRx(in) == IF in # <<>> THEN Tail(in) ELSE in

\* the value of its local ack when waitForAck returned
AckRead(in) == IF in # <<>> THEN Head(in) ELSE NoByte

\* ------------------------------------------------------ handleUploadRequest
\* the guard of the append branch in the receive loop
BuffFitsAlways(cnt) == TRUE
BuffFits(cnt) == cnt <= SERIAL_PACKET

\* bytes the receive loop expects in all, by the frame count in localBuff[1]
ExpectedShort(buff) == META_SIZE
Expected(buff) == buff[2] * FRAME_SIZE + META_SIZE

\* the receive loop run on buffer buff, count cnt and pending input in, up to
\* the point where it blocks ("wait"), falls through ("done") or gives up
\* ("abort"): it stores bytes while more are expected, one is pending and
\* BuffFits holds.  over records a store at index SERIAL_PACKET or beyond.
\* (buffCount is a byte; with BuffFits it stays below 144 and never wraps.)
ReceiveLoop(buff, cnt, in, over) ==
  LET want == IF cnt < Expected(buff) THEN Expected(buff) - cnt ELSE 0
      most == IF Len(in) < want THEN Len(in) ELSE want
      full == {j \in 0..(most - 1) : ~BuffFits(cnt + j)}
      k == IF full = {} THEN most ELSE Least(full)
      buff2 == buff \o Take(in, k)
      cnt2 == cnt + k
      in2 == Drop(in, k)
      over2 == over \/ (k > 0 /\ cnt2 - 1 >= SERIAL_PACKET)
      out == IF ~(cnt2 < Expected(buff)) THEN "done"
             ELSE IF in2 = <<>> THEN "wait"
             ELSE "abort"
  IN [out |-> out, buff |-> buff2, cnt |-> cnt2, in |-> in2, over |-> over2]

\* what a store one byte past the end of localBuff (142 bytes on the stack)
\* leads to once handleUploadRequest returns: nothing that shows ("intact"),
\* or a return through a clobbered stack that ends in a restart ("lost")
SmashOutcomes == {"intact", "lost"}

\* the receive loop from buffer buff and count cnt on input in, then the echo
\* of the buffer and the start of waitForAck, or the empty line
Receive(buff, cnt, in) ==
  LET r == ReceiveLoop(buff, cnt, in, overrun)
  IN /\ overrun' = r.over
     /\ CASE r.out = "wait" ->
               /\ pc' = "upRead"
               /\ localBuff' = r.buff
               /\ buffCount' = r.cnt
               /\ rx' = r.in
               /\ UNCHANGED <<tx, eeprom, putSlot, currentAnim, code, rdElapsed, dlVars,
                              ackElapsed, ackLog, fsmVars, btnVars>>
          [] r.out = "done" ->
               /\ pc' = "upAck"
               /\ localBuff' = r.buff
               /\ buffCount' = r.cnt
               /\ rx' = r.in
               /\ tx' = Append(tx, Written(Take(r.buff, r.cnt)))
               /\ ackElapsed' = 0
               /\ UNCHANGED <<eeprom, putSlot, currentAnim, code, rdElapsed, dlVars,
                              ackLog, fsmVars, btnVars>>
          [] OTHER ->
               /\ localBuff' = r.buff
               /\ buffCount' = r.cnt
               /\ \E outcome \in IF r.over THEN SmashOutcomes ELSE {"intact"} :
                    IF outcome = "intact"
                    THEN /\ Return(Append(tx, EmptyLine), r.in)
                         /\ UNCHANGED <<eeprom, putSlot>>
                    ELSE resetFunc(Append(tx, EmptyLine))
               /\ UNCHANGED ackLog

\* handleUploadRequest from its start: Serial.readBytes(localBuff, META_SIZE)
\* once two bytes are available, then the receive loop; arrived is what the
\* host sends on reading ready_<code>
UploadMeta(arrived) ==
  /\ pc = "upMeta"
  /\ UNCHANGED <<polled, pot, ledVars>>
  /\ arrived # <<>> => rx = <<>>
  /\ Len(rx \o arrived) >= META_SIZE
  /\ Receive(Take(rx \o arrived, META_SIZE), buffCount, Drop(rx \o arrived, META_SIZE))

\* the receive loop blocked for want of a byte, and more arrive
UploadRead(arrived) ==
  /\ pc = "upRead"
  /\ UNCHANGED <<polled, pot, ledVars>>
  /\ arrived # <<>>
  /\ Receive(localBuff, buffCount, arrived)

\* EEPROM.put(slot * sizeof(animation), a): the six regions after the write
PutAnimAtCode(store, slot, a) == [store EXCEPT ![FirstChar(code) - CH_0] = a]
PutAnim(store, slot, a) == IF slot \in Slots THEN [store EXCEPT ![slot] = a] ELSE store

\* waitForAck(1000) of the upload returns: save and report, or restart
UploadAck(arrived) ==
  /\ pc = "upAck"
  /\ UNCHANGED <<polled, pot, ledVars>>
  /\ MayArrive(arrived)
  /\ waitForAck(rx \o arrived) # "wait"
  /\ ackLog' = Append(ackLog, AckRead(rx \o arrived))
  /\ IF waitForAck(rx \o arrived) = "ok"
     THEN /\ \E garbage \in GarbageTimes :
               eeprom' = PutAnim(eeprom, localBuff[1], ParseAnim(localBuff, garbage))
          /\ putSlot' = localBuff[1]
          /\ Return(Append(tx, DoneLine), AckRx(rx \o arrived))
          /\ UNCHANGED upVars
     ELSE /\ resetFunc(Append(tx, AckFailLine))
          /\ UNCHANGED upVars

\* ---------------------------------------------------- handleDownloadRequest
\* first waitForAck of the iteration, then Serial.write(i), write(frameCount)
DownloadAckHeader(arrived) ==
  /\ pc = "dlAck1"
  /\ UNCHANGED <<polled, pot, ledVars>>
  /\ MayArrive(arrived)
  /\ waitForAck(rx \o arrived) # "wait"
  /\ ackLog' = Append(ackLog, AckRead(rx \o arrived))
  /\ IF waitForAck(rx \o arrived) = "ok"
     THEN /\ pc' = "dlAck2"
          /\ rx' = AckRx(rx \o arrived)
          /\ tx' = Append(tx, Written(<<dl_i, dl_a.frameCount>>))
          /\ ackElapsed' = 0
          /\ UNCHANGED <<storeVars, code, rdElapsed, upVars, dlVars, fsmVars, btnVars>>
     ELSE /\ resetFunc(Append(tx, AckFailLine))
          /\ UNCHANGED upVars

\* second waitForAck, then Serial.write(frameBuff, frameCount * FRAME_SIZE)
DownloadAckFrames(arrived) ==
  /\ pc = "dlAck2"
  /\ UNCHANGED <<polled, pot, ledVars>>
  /\ MayArrive(arrived)
  /\ waitForAck(rx \o arrived) # "wait"
  /\ ackLog' = Append(ackLog, AckRead(rx \o arrived))
  /\ IF waitForAck(rx \o arrived) = "ok"
     THEN /\ pc' = "dlAck3"
          /\ rx' = AckRx(rx \o arrived)
          /\ tx' = Append(tx, Written(frameBuff(dl_a)))
          /\ ackElapsed' = 0
          /\ UNCHANGED <<storeVars, code, rdElapsed, upVars, dlVars, fsmVars, btnVars>>
     ELSE /\ resetFunc(Append(tx, AckFailLine))
          /\ UNCHANGED upVars

\* third waitForAck, then the next iteration or the return
DownloadAckNext(arrived) ==
  /\ pc = "dlAck3"
  /\ UNCHANGED <<polled, pot, ledVars>>
  /\ MayArrive(arrived)
  /\ waitForAck(rx \o arrived) # "wait"
  /\ ackLog' = Append(ackLog, AckRead(rx \o arrived))
  /\ IF waitForAck(rx \o arrived) = "ok"
     THEN IF dl_i + 1 < NUM_SLOTS
          THEN /\ pc' = "dlAck1"
               /\ rx' = AckRx(rx \o arrived)
               /\ dl_i' = dl_i + 1
               /\ dl_a' = EEPROM_Load(dl_i + 1)
               /\ ackElapsed' = 0
               /\ UNCHANGED <<tx, storeVars, code, rdElapsed, upVars, fsmVars, btnVars>>
          ELSE /\ Return(tx, AckRx(rx \o arrived))
               /\ UNCHANGED <<eeprom, putSlot, upVars>>
     ELSE /\ resetFunc(Append(tx, AckFailLine))
          /\ UNCHANGED upVars

\* ----------------------------------------------------------------- buttonFSM
\* the debounce test of the TRIGGERED case on elapsed = millis() - timer
DebouncePassedAt(elapsed) == elapsed >= BTN_TIME
DebouncePassed(elapsed) == elapsed > BTN_TIME

\* outputMode after a committed "up"
ModeUpNoWrap(m) == m + 1
ModeUp(m) == (m + 1) % NUM_SLOTS

\* outputMode after a committed "down"
ModeDown(m) == IF m < 1 THEN NUM_SLOTS - 1 ELSE m - 1

\* the test of the RELEASE case: both pins read high
EitherReleased == ~btnUp \/ ~btnDown
BothReleased == ~btnUp /\ ~btnDown

\* the statics of buttonFSM after one call; elapsed 0 is timer = millis(), and
\* the timer is not read again once TRIGGERED is left
buttonFSM ==
  LET same == [state |-> currentState, up |-> changeUP, elapsed |-> btnElapsed,
               mode |-> outputMode]
  IN CASE currentState = IDLE ->
            IF btnUp
            THEN [same EXCEPT !.state = TRIGGERED, !.up = TRUE, !.elapsed = 0]
            ELSE IF btnDown
            THEN [same EXCEPT !.state = TRIGGERED, !.up = FALSE, !.elapsed = 0]
            ELSE same
       [] currentState = TRIGGERED ->
            IF DebouncePassed(btnElapsed)
            THEN [same EXCEPT
                    !.state = RELEASE,
                    !.elapsed = 0,
                    !.mode = IF changeUP /\ btnUp THEN ModeUp(outputMode)
                             ELSE IF ~changeUP /\ btnDown THEN ModeDown(outputMode)
                             ELSE outputMode]
            ELSE same
       [] OTHER ->
            IF BothReleased THEN [same EXCEPT !.state = IDLE] ELSE same

\* abs(LEDscale - prevLEDScale) on two uint16_t: with a 16-bit int the
\* difference is unsigned and wraps, and abs() of it is the wrapped value;
\* with a wider int it is the distance
KnobDelta(l, p, intBits) ==
  IF intBits = 16 THEN (l - p + 65536) % 65536
  ELSE IF l >= p THEN l - p ELSE p - l
IntBits == {16, 32}

\* Serial.available() > 0 as loop() tests it
InputPendingNever == FALSE
InputPending == rx # <<>>

\* loop() with no input pending: brightness, buttons, reload on a change of
\* mode, render
LoopRun ==
  /\ pc = "loop"
  /\ ~InputPending
  /\ polled' = TRUE
  /\ LEDscale' = pot \div 4
  /\ \E intBits \in IntBits :
       IF KnobDelta(pot \div 4, prevLEDScale, intBits) > POT_THRES
       THEN /\ brightness' = (pot \div 4) % 256
            /\ prevLEDScale' = pot \div 4
       ELSE UNCHANGED <<brightness, prevLEDScale>>
  /\ LET f == buttonFSM
     IN /\ currentState' = f.state
        /\ changeUP' = f.up
        /\ btnElapsed' = f.elapsed
        /\ outputMode' = f.mode
        /\ IF f.mode # lastMode
           THEN /\ currentAnim' = EEPROM_Load(f.mode)
                /\ lastMode' = f.mode
           ELSE UNCHANGED <<currentAnim, lastMode>>
  /\ UNCHANGED <<pc, rx, tx, eeprom, putSlot, code, rdElapsed, upVars, dlVars,
                 ackElapsed, ackLog, btnVars, pot>>

\* --------------------------------------------------------------- environment
\* the busy-polling device has a timeout to act on: it acts before any more
\* time passes
Urgent ==
  \/ pc \in AckWaits /\ waitForAck(rx) = "timeout"
  \/ pc = "readCode" /\ ReadTimedOut

\* an upload payload: slot, frame count, then n * 7 bytes of frame data
Payload(s, n, seed) ==
  <<s, n>> \o [k \in 1..(n * FRAME_SIZE) |-> (seed + 37 * k) % 256]

\* what the host sends to open an exchange: "2-", "5" (no delimiter), "d-",
\* "d-" with the first two acknowledgement bytes right behind it, and "x-2"
\* (an unknown code with one more character behind it)
HostCodes ==
  {<<50, CH_DASH>>, <<53>>, <<CH_d, CH_DASH>>, <<CH_d, CH_DASH, ACK_BYTE, ACK_BYTE>>,
   <<120, CH_DASH, 50>>}

\* the upload payload of the documented example: slot 2, one red frame at
\* 100 ms
ExamplePayload == <<2, 1, 255, 0, 0, 0, 0, 0, 100>>

\* payloads the host sends: the example, a full one, one frame too many, the
\* first 150 bytes of one of 255 frames, an empty one, one for a slot that
\* does not exist, and the first 5 bytes of the example
HostPayloads ==
  {ExamplePayload,
   Payload(5, 20, 200),
   Payload(3, 21, 9),
   Take(Payload(1, 255, 3), 150),
   Payload(5, 0, 0),
   Payload(7, 2, 77),
   Take(ExamplePayload, 5)}

\* what the host sends after a pause inside a code or a payload: the
\* delimiter, or the last 4 bytes of the example payload
HostCodeRest == {<<CH_DASH>>}
HostPayloadRest == {Drop(ExamplePayload, 5)}

\* what the host answers an acknowledgement wait with
HostAcks == {<<ACK_BYTE>>, <<0>>}

\* the buttons are pressed or released
Buttons(u, d) ==
  /\ <<u, d>> # <<btnUp, btnDown>>
  /\ btnUp' = u
  /\ btnDown' = d
  /\ polled' = FALSE
  /\ UNCHANGED <<pc, rx, tx, storeVars, code, rdElapsed, upVars, dlVars, ackElapsed,
                 ackLog, fsmVars, pot, ledVars>>

\* the brightness knob is turned
PotValues == {0, 84}
Knob(v) ==
  /\ v # pot
  /\ pot' = v
  /\ polled' = FALSE
  /\ UNCHANGED <<pc, rx, tx, storeVars, code, rdElapsed, upVars, dlVars, ackElapsed,
                 ackLog, fsmVars, btnVars, ledVars>>

\* elapsed time e after dt more, kept only up to the first value past limit
Later(e, dt, limit) == IF e + dt > limit THEN limit + 1 ELSE e + dt

\* a timer of the exchange in progress is running and has not run out
ExchangeTimer ==
  \/ pc \in AckWaits /\ ackElapsed <= ACK_TIMEOUT
  \/ pc = "readCode" /\ rdElapsed < STREAM_TIMEOUT

\* the debounce timer is running and has not run out
DebounceTimer == currentState = TRIGGERED /\ btnElapsed <= BTN_TIME

\* time passes by dt, a step on the scale of the timer the code is polling:
\* the one of the exchange in progress, else the debounce timer
Tick(dt) ==
  /\ ~Urgent
  /\ polled' = FALSE
  /\ \/ dt = ACK_TIMEOUT /\ ExchangeTimer
     \/ dt = BTN_TIME /\ ~ExchangeTimer /\ DebounceTimer
  /\ btnElapsed' = IF currentState = TRIGGERED THEN Later(btnElapsed, dt, BTN_TIME)
                   ELSE btnElapsed
  /\ ackElapsed' = IF pc \in AckWaits THEN Later(ackElapsed, dt, ACK_TIMEOUT)
                   ELSE ackElapsed
  /\ rdElapsed' = IF pc = "readCode" THEN Later(rdElapsed, dt, STREAM_TIMEOUT)
                  ELSE rdElapsed
  /\ UNCHANGED <<pc, rx, tx, storeVars, code, upVars, dlVars, ackLog, currentState,
                 changeUP, outputMode, lastMode, btnVars, pot, ledVars>>

Next ==
  \/ \E c \in HostCodes \cup {<<>>} : LoopSerial(c)
  \/ \E c \in HostCodeRest \cup {<<>>} : ReadCode(c)
  \/ \E p \in HostPayloads \cup {<<>>} : UploadMeta(p)
  \/ \E p \in HostPayloadRest : UploadRead(p)
  \/ \E b \in HostAcks \cup {<<>>} : UploadAck(b)
  \/ \E b \in HostAcks \cup {<<>>} : DownloadAckHeader(b)
  \/ \E b \in HostAcks \cup {<<>>} : DownloadAckFrames(b)
  \/ \E b \in HostAcks \cup {<<>>} : DownloadAckNext(b)
  \/ LoopReload
  \/ LoopRun
  \/ Setup
  \/ \E u \in BOOLEAN, d \in BOOLEAN : Buttons(u, d)
  \/ \E dt \in TimeSteps : Tick(dt)

Spec == Init /\ [][Next]_vars

\* the lamp with its brightness knob, and a host that sends "2-" with the
\* example payload, "d-" and "x-2"
LampCodes == {<<50, CH_DASH>>, <<CH_d, CH_DASH>>, <<120, CH_DASH, 50>>}
NextLamp ==
  \/ \E c \in LampCodes \cup {<<>>} : LoopSerial(c)
  \/ ReadCode(<<>>)
  \/ UploadMeta(ExamplePayload)
  \/ \E b \in HostAcks \cup {<<>>} : UploadAck(b)
  \/ \E b \in HostAcks \cup {<<>>} : DownloadAckHeader(b)
  \/ \E b \in HostAcks \cup {<<>>} : DownloadAckFrames(b)
  \/ \E b \in HostAcks \cup {<<>>} : DownloadAckNext(b)
  \/ LoopReload
  \/ LoopRun
  \/ Setup
  \/ \E u \in BOOLEAN : Buttons(u, FALSE)
  \/ \E dt \in TimeSteps : Tick(dt)
  \/ \E v \in PotValues : Knob(v)

SpecLamp == Init /\ [][NextLamp]_vars

\* the device and the clock keep running: time passes while a timer is being
\* polled, and a polling loop whose exit condition holds takes the exit.  The
\* host is free to send or to stay silent.
LiveCodes == {<<50, CH_DASH>>, <<53>>, <<CH_d, CH_DASH>>, <<CH_d, CH_DASH, ACK_BYTE>>}
LivePayloads == {ExamplePayload, Take(ExamplePayload, 5)}
DevicePolls ==
  \/ ReadCode(<<>>)
  \/ UploadAck(<<>>)
  \/ DownloadAckHeader(<<>>)
  \/ DownloadAckFrames(<<>>)
  \/ DownloadAckNext(<<>>)
ClockRuns == \E dt \in TimeSteps : Tick(dt)
NextLive ==
  \/ \E c \in LiveCodes : LoopSerial(c)
  \/ \E p \in LivePayloads : UploadMeta(p)
  \/ \E p \in HostPayloadRest : UploadRead(p)
  \/ \E b \in HostAcks : UploadAck(b)
  \/ \E b \in HostAcks : DownloadAckHeader(b)
  \/ \E b \in HostAcks : DownloadAckFrames(b)
  \/ \E b \in HostAcks : DownloadAckNext(b)
  \/ DevicePolls
  \/ LoopReload
  \/ LoopRun
  \/ Setup
  \/ \E u \in BOOLEAN : Buttons(u, FALSE)
  \/ ClockRuns

SpecLive ==
  /\ Init
  /\ [][NextLive]_vars
  /\ WF_vars(ClockRuns)
  /\ WF_vars(DevicePolls)

\* ------------------------------------------------------- the codec on its own
\* records to encode and decode: frame counts 1..MAX_FRAMES, times from 0 up
\* to 0xFFFFFFFF
MaxSeed == 2
MAX_FRAMES == (SERIAL_PACKET - META_SIZE) \div FRAME_SIZE

TestRecord(n, seed) ==
  Anim([k \in 1..n |->
          Frame((85 * seed + k) % 256, (85 * seed + 2 * k) % 256, (255 - k) % 256,
                (65535 * seed + 257 * (k - 1)) % 65536,
                (65535 * seed + 255 * (k - 1)) % 65536)])
TestRecords == {TestRecord(n, seed) : n \in 1..MAX_FRAMES, seed \in 0..MaxSeed}

\* dl_a holds the record, localBuff its bytes on the wire, currentAnim the
\* record decoded from them, tx the decoded record encoded again
InitCodec ==
  /\ pc = "encode"
  /\ dl_a \in TestRecords
  /\ rx = <<>>
  /\ tx = <<>>
  /\ eeprom = defaults
  /\ putSlot = NoPut
  /\ currentAnim = NoAnim
  /\ code = <<>>
  /\ rdElapsed = 0
  /\ localBuff = <<>>
  /\ buffCount = 0
  /\ overrun = FALSE
  /\ dl_i = 0
  /\ ackElapsed = 0
  /\ ackLog = <<>>
  /\ currentState = IDLE
  /\ changeUP = FALSE
  /\ btnElapsed = 0
  /\ outputMode = 0
  /\ lastMode = 0
  /\ polled = FALSE
  /\ pot = 0
  /\ LEDscale = 0
  /\ prevLEDScale = 0
  /\ brightness = 0
  /\ btnUp = FALSE
  /\ btnDown = FALSE

codecRest ==
  <<rx, eeprom, putSlot, code, rdElapsed, overrun, dl_i, dl_a, ackElapsed, ackLog,
    fsmVars, btnVars>>

\* the header and frameBuff as handleDownloadRequest writes them
CodecEncode ==
  /\ pc = "encode"
  /\ pc' = "decode"
  /\ UNCHANGED <<polled, pot, ledVars>>
  /\ localBuff' = <<dl_i, dl_a.frameCount>> \o frameBuff(dl_a)
  /\ buffCount' = Len(localBuff')
  /\ UNCHANGED <<tx, currentAnim, codecRest>>

\* saveAnimationFromSerial on those bytes
CodecDecode ==
  /\ pc = "decode"
  /\ pc' = "done"
  /\ UNCHANGED <<polled, pot, ledVars>>
  /\ \E garbage \in GarbageTimes : currentAnim' = ParseAnim(localBuff, garbage)
  /\ UNCHANGED <<tx, localBuff, buffCount, codecRest>>

\* the decoded record written out by handleDownloadRequest again
CodecEncodeAgain ==
  /\ pc = "done"
  /\ pc' = "again"
  /\ UNCHANGED <<polled, pot, ledVars>>
  /\ tx' = <<Written(frameBuff(currentAnim))>>
  /\ UNCHANGED <<currentAnim, localBuff, buffCount, codecRest>>

NextCodec ==
  \/ CodecEncode
  \/ CodecDecode
  \/ CodecEncodeAgain

SpecCodec == InitCodec /\ [][NextCodec]_vars

\* ===================================================================== claims
\* keyframe number k (from 1) of an upload payload P as the wire format lays
\* it out: after the 2 header bytes, 3 colour bytes and 4 big-endian time bytes
WireKeyframe(P, k) ==
  LET o == 2 + 7 * (k - 1)
  IN [color |-> <<P[o + 1], P[o + 2], P[o + 3]>>,
      time |-> <<256 * P[o + 4] + P[o + 5], 256 * P[o + 6] + P[o + 7]>>]

\* a complete upload payload for an existing slot with 1..20 keyframes
ValidPayload(P) ==
  /\ Len(P) >= 2
  /\ P[1] \in 0..5
  /\ P[2] \in 1..20
  /\ Len(P) = 2 + 7 * P[2]

\* C1: when the host acknowledges the echo of a valid payload with 0xFF, the
\* slot named by payload byte 0 holds afterwards the payload's frame count and
\* exactly its keyframes, whatever digit the command code carried, and every
\* other slot holds what it held before.
C1_UploadStoresPayload ==
  [][(/\ pc = "upAck"
      /\ code # <<>>
      /\ code[1] \in 48..53
      /\ localBuff \in HostPayloads
      /\ ValidPayload(localBuff)
      /\ ackLog' = <<255>>)
     => LET s == localBuff[1]
            n == localBuff[2]
        IN /\ eeprom'[s].frameCount = n
           /\ Len(eeprom'[s].frames) = n
           /\ \A k \in 1..n : eeprom'[s].frames[k] = WireKeyframe(localBuff, k)
           /\ \A o \in (0..5) \ {s} : eeprom'[o] = eeprom[o]
           /\ tx' = <<ReadyLine(code), Written(localBuff), DoneLine>>]_vars

\* the documented example uploaded under the command code "5": slot 2 holds
\* the one red keyframe at 100 ms, slot 5 still its default
C1_Witness ==
  /\ pc = "reload"
  /\ tx = <<ReadyLine(<<53>>), Written(ExamplePayload), DoneLine>>
  /\ ackLog = <<255>>
  /\ eeprom[2].frameCount = 1
  /\ eeprom[2].frames = <<[color |-> <<255, 0, 0>>, time |-> <<0, 100>>]>>
  /\ eeprom[5] = defaults[5]

\* C2: when the wait after the echo of the upload buffer ends on a byte other
\* than 0xFF, or on no byte within 1000 ms, no slot of the store changes and
\* the device restarts; the restart leaves the selection index 0, the button
\* state machine IDLE and slot 0's record loaded.
C2_UploadFailureRestarts ==
  /\ [][(pc = "upAck" /\ pc' # "upAck" /\ ackLog' # <<255>>)
        => (pc' = "reset" /\ eeprom' = eeprom)]_vars
  /\ [][(pc = "upAck" /\ rx = <<>> /\ ackElapsed > 1000 /\ pc' # "upAck")
        => (pc' = "reset" /\ ackLog' = <<NoByte>> /\ eeprom' = eeprom)]_vars
  /\ [][(pc = "reset" /\ pc' # "reset")
        => /\ pc' = "loop"
           /\ eeprom' = eeprom
           /\ outputMode' = 0
           /\ currentState' = IDLE
           /\ currentAnim' = eeprom'[0]]_vars

\* the echo of the example payload was never answered: restart under way,
\* slot 2 as it was
C2_Witness ==
  /\ pc = "reset"
  /\ tx = <<ReadyLine(<<50>>), Written(ExamplePayload), AckFailLine>>
  /\ ackLog = <<NoByte>>
  /\ eeprom[2] = defaults[2]
  /\ outputMode = 0
  /\ currentState = IDLE

\* the payload bytes of a stored record a on the wire: per keyframe R, G, B,
\* then the time as 4 bytes, most significant first
WireBytes(a) ==
  [k \in 1..(7 * a.frameCount) |->
     LET f == a.frames[((k - 1) \div 7) + 1]
         j == (k - 1) % 7
     IN CASE j < 3 -> f.color[j + 1]
          [] j = 3 -> f.time[1] \div 256
          [] j = 4 -> f.time[1] % 256
          [] j = 5 -> f.time[2] \div 256
          [] OTHER -> f.time[2] % 256]

\* the 12 messages of a complete download of store: header and payload of
\* slots 0..5 in that order
DownloadWire(store) ==
  [j \in 1..12 |->
     LET s == (j - 1) \div 2
     IN IF j % 2 = 1 THEN Written(<<s, store[s].frameCount>>)
        ELSE Written(WireBytes(store[s]))]

\* messages a download has sent once a acknowledgements have been read: each
\* slot takes three, the first releases the header, the second the payload
SentAfter(a) == 2 * (a \div 3) + (IF a % 3 = 2 THEN 2 ELSE a % 3)

\* C3: in a download where every acknowledgement wait so far was answered with
\* 0xFF, what the device has sent after ready_d is the headers and payloads of
\* slots 0,1,2,.. in order, byte for byte as stored, as many of them as the
\* acknowledgements read so far release and no more; when the exchange is
\* over, all 12 have been sent on 18 acknowledgements.
C3_DownloadGated ==
  (/\ tx # <<>>
   /\ tx[1] = ReadyLine(<<100>>)
   /\ \A j \in 1..Len(ackLog) : ackLog[j] = 255)
  => /\ Len(tx) - 1 = SentAfter(Len(ackLog))
     /\ \A j \in 1..(Len(tx) - 1) : tx[j + 1] = DownloadWire(eeprom)[j]
     /\ pc = "reload" => Len(ackLog) = 18

\* a download completed after the example payload had been stored in slot 2
C3_Witness ==
  /\ pc = "reload"
  /\ tx # <<>>
  /\ tx[1] = ReadyLine(<<100>>)
  /\ Len(tx) = 13
  /\ eeprom[2].frameCount = 1
  /\ tx[7] = Written(<<255, 0, 0, 0, 0, 0, 100>>)

\* C4: bytes encoded from a record of 1..20 keyframes decode to a record with
\* the same frame count and the same keyframes, and encoding the decoded record
\* gives the same payload bytes again.
C4_RoundTrip ==
  /\ pc \in {"done", "again"}
       => /\ dl_a.frameCount \in 1..20
          /\ currentAnim.frameCount = dl_a.frameCount
          /\ currentAnim.frames = dl_a.frames
  /\ pc = "again" => tx = <<Written(Drop(localBuff, 2))>>

\* a record of 20 keyframes, one of them at time 0xFFFFFFFF, has gone round
C4_Witness ==
  /\ pc = "again"
  /\ dl_a.frameCount = 20
  /\ dl_a.frames[1].time = <<65535, 65535>>
  /\ currentAnim = dl_a

\* the upload buffer holds a header whose frame count needs more than 142 bytes
Overflowing == Len(localBuff) >= 2 /\ 2 + 7 * localBuff[2] > 142

\* C5: an upload whose frame count implies more than 142 bytes ends with an
\* empty line after ready_<code>, with no echo, no acknowledgement wait, no
\* write to the store and no restart.
C5_OverflowAborts ==
  /\ [](Overflowing
        => /\ pc \in {"upRead", "reload"}
           /\ \A j \in 1..Len(tx) : tx[j].kind # "write"
           /\ ackLog = <<>>
           /\ putSlot = NoPut
           /\ pc = "reload" => tx = <<ReadyLine(tx[1].data), EmptyLine>>)
  /\ [][Overflowing' => eeprom' = eeprom]_vars

\* the triggering button reads pressed
Held == IF changeUP THEN btnUp ELSE btnDown

C7_Wraparound ==
  /\ [](outputMode \in 0..5)
  /\ [][(LoopRun /\ outputMode' # outputMode)
        => IF changeUP
           THEN outputMode' = (outputMode + 1) % 6
           ELSE outputMode' = IF outputMode >= 1 THEN outputMode - 1 ELSE 5]_vars

\* slot 5 selected by a "down" that has just been committed
C7_Witness ==
  /\ outputMode = 5
  /\ lastMode = 5
  /\ currentState = RELEASE
  /\ ~changeUP
  /\ btnDown
  /\ currentAnim = eeprom[5]

\* C8: whenever the device is in its runtime loop, the record loaded into the
\* animator is the stored record of the selected slot, also after an exchange
\* has returned.
C8_LoadedIsSelected == pc = "loop" => currentAnim = eeprom[outputMode]

UnknownOpened ==
  /\ tx # <<>>
  /\ tx[1].kind = "ready_"
  /\ \/ tx[1].data = <<>>
     \/ tx[1].data[1] \notin (48..53) \cup {100}

\* C10: after a code whose first character is neither '0'..'5' nor 'd' the
\* device has sent ready_<code> and an empty line and is back in loop(); the
\* upload buffer and the acknowledgement waits have read nothing, no slot has
\* been written and there is no restart.
C10_UnknownCommand ==
  /\ [](UnknownOpened
        => /\ pc = "reload"
           /\ tx = <<ReadyLine(tx[1].data), EmptyLine>>
           /\ localBuff = <<>>
           /\ ackLog = <<>>
           /\ putSlot = NoPut)
  /\ [][UnknownOpened' => eeprom' = eeprom]_vars

\* "x-2" was received: the exchange is over and the "2" is still unread
C10_Witness ==
  /\ pc = "reload"
  /\ tx = <<ReadyLine(<<120>>), EmptyLine>>
  /\ rx = <<50>>

\* C11: the record an upload has written to a slot has at least one frame and
\* a total duration equal to the time of its last frame; a header that declares
\* frame count 0 leaves no record behind.
C11_StoredRecordNonEmpty ==
  putSlot \in Slots
    => /\ eeprom[putSlot].frameCount >= 1
       /\ eeprom[putSlot].time
            = eeprom[putSlot].frames[eeprom[putSlot].frameCount].time

\* the exchange in progress was opened by an upload code '0'..'5'
UploadOpened ==
  /\ tx # <<>>
  /\ tx[1].kind = "ready_"
  /\ tx[1].data # <<>>
  /\ tx[1].data[1] \in 48..53

\* C12: in an upload exchange ready_<code> comes first, the 2 header bytes are
\* read before the payload bytes, the echo is sent when all 2 + frameCount * 7
\* bytes are in and repeats them verbatim, the acknowledgement is awaited after
\* the echo, the store is written only on a 0xFF read in that wait, and Done is
\* sent only after the store write.
C12_UploadOrdering ==
  /\ [](UploadOpened
        => /\ tx[1] = ReadyLine(tx[1].data)
           /\ pc = "upMeta"
                => (tx = <<tx[1]>> /\ localBuff = <<>> /\ ackLog = <<>> /\ putSlot = NoPut)
           /\ pc = "upRead"
                => /\ tx = <<tx[1]>>
                   /\ Len(localBuff) >= 2
                   /\ Len(localBuff) < 2 + 7 * localBuff[2]
                   /\ ackLog = <<>>
                   /\ putSlot = NoPut
           /\ pc = "upAck"
                => /\ tx = <<tx[1], Written(localBuff)>>
                   /\ Len(localBuff) = 2 + 7 * localBuff[2]
                   /\ ackLog = <<>>
                   /\ putSlot = NoPut
           /\ putSlot # NoPut
                => /\ ackLog = <<255>>
                   /\ tx = <<tx[1], Written(localBuff), DoneLine>>
                   /\ Len(localBuff) = 2 + 7 * localBuff[2]
           /\ (\E j \in 1..Len(tx) : tx[j] = DoneLine) => putSlot # NoPut
           /\ ackLog # <<>> => (Len(tx) >= 2 /\ tx[2] = Written(localBuff)))
  /\ [](putSlot # NoPut => UploadOpened)
  /\ [][(putSlot' # putSlot /\ putSlot' # NoPut)
        => /\ pc = "upAck"
           /\ ackLog' = <<255>>
           /\ tx' = Append(tx, DoneLine)]_vars

\* 20 frames for slot 5 went through all the steps: 142 bytes read, echoed,
\* acknowledged, stored, Done sent
C12_Witness ==
  /\ pc = "reload"
  /\ UploadOpened
  /\ Len(localBuff) = 142
  /\ tx = <<tx[1], Written(localBuff), DoneLine>>
  /\ ackLog = <<255>>
  /\ putSlot = 5

\* C13: whatever frame count the header declares, the upload buffer never
\* holds more than 142 bytes and no byte is stored at an index past 141.
C13_BufferBound ==
  /\ buffCount <= 142
  /\ Len(localBuff) <= 142
  /\ ~overrun

\* C14: the slot an acknowledged upload writes to is one of 0..5, whatever
\* value payload byte 0 has.
C14_StoredSlotRange == putSlot # NoPut => putSlot \in 0..5

\* C15 as stated: RELEASE is left only by a call of buttonFSM that reads both
\* buttons released, and then for IDLE; the slot index changes only in the
\* call that leaves TRIGGERED for RELEASE, and TRIGGERED is entered only from
\* IDLE.  So a second change needs a call that saw both buttons released.
C15_NoRepeatWhileHeld ==
  /\ [][(currentState = RELEASE /\ currentState' # RELEASE)
        => (LoopRun /\ ~btnUp /\ ~btnDown /\ currentState' = IDLE)]_vars
  /\ [][outputMode' # outputMode
        => (LoopRun /\ currentState = TRIGGERED /\ currentState' = RELEASE)]_vars
  /\ [][(currentState' = TRIGGERED /\ currentState # TRIGGERED)
        => (LoopRun /\ currentState = IDLE)]_vars

\* C15: between two restarts of the device, RELEASE is left only by a call of
\* buttonFSM that reads both buttons released, and then for IDLE; the slot
\* index changes only in the call that leaves TRIGGERED for RELEASE, and
\* TRIGGERED is entered only from IDLE.  A restart puts the state machine back
\* to IDLE and the slot index to 0 whatever the buttons read.
C15_NoRepeatWithinRun ==
  /\ [][(currentState = RELEASE /\ currentState' # RELEASE)
        => \/ LoopRun /\ ~btnUp /\ ~btnDown /\ currentState' = IDLE
           \/ pc' = "reset" /\ currentState' = IDLE]_vars
  /\ [][outputMode' # outputMode
        => \/ LoopRun /\ currentState = TRIGGERED /\ currentState' = RELEASE
           \/ pc' = "reset" /\ outputMode' = 0]_vars
  /\ [][(currentState' = TRIGGERED /\ currentState # TRIGGERED)
        => (LoopRun /\ currentState = IDLE)]_vars

\* "up" was committed once from slot 0; since then both buttons are down and
\* a call of buttonFSM has left the state RELEASE and the slot index 1
C15_Witness ==
  /\ pc = "loop"
  /\ polled
  /\ currentState = RELEASE
  /\ changeUP
  /\ btnUp
  /\ btnDown
  /\ outputMode = 1
  /\ lastMode = 1

\* C16: the six slots change only in the step of an upload that reads 0xFF in
\* its acknowledgement wait; every other step (download, unknown command,
\* overflow abort, failed acknowledgement, restart and setup(), button and
\* render ticks, time passing) leaves all six as they were.
C16_StoreFrame ==
  /\ [][eeprom' # eeprom
        => (pc = "upAck" /\ ackLog' = <<255>> /\ pc' = "reload")]_vars
  /\ [][(pc = "reset" \/ pc' = "reset") => eeprom' = eeprom]_vars

\* a download was cut short by a failed acknowledgement after slot 0 had been
\* sent; the restart under way finds slot 2 as an earlier upload left it
C16_Witness ==
  /\ pc = "reset"
  /\ Len(tx) >= 4
  /\ tx[1] = ReadyLine(<<100>>)
  /\ tx[Len(tx)] = AckFailLine
  /\ eeprom[2].frameCount = 1
  /\ eeprom[2] # defaults[2]

\* handleSerial() has been entered and has neither returned nor restarted the
\* device
InExchange == pc \in {"readCode", "upMeta", "upRead"} \cup AckWaits

\* C17: from the tick of loop() that finds input pending until the exchange
\* returns or the device restarts, no step runs the else branch of loop():
\* buttonFSM's state and slot index, lastMode, the brightness sample and the
\* brightness handed to the strip stay as they were and nothing is rendered,
\* while buttons and knob move freely.
C17_ExchangeExclusive ==
  /\ []((InExchange \/ pc = "reload") => ~polled)
  /\ [][((pc = "loop" /\ rx # <<>>) \/ pc = "reload" \/ (InExchange /\ pc' # "reset"))
        => /\ ~polled'
           /\ UNCHANGED <<currentState, changeUP, outputMode, lastMode, ledVars>>]_vars

\* an upload waits for its acknowledgement while the up button, pressed before
\* the exchange, is down past the debounce time and the knob has been turned:
\* the state is still TRIGGERED, the slot index 0, the brightness 0
C17_Witness ==
  /\ pc = "upAck"
  /\ currentState = TRIGGERED
  /\ btnUp
  /\ btnElapsed > BTN_TIME
  /\ outputMode = 0
  /\ pot = 84
  /\ LEDscale = 0
  /\ brightness = 0

\* a download has been dispatched and has neither returned nor restarted
InDownload == pc \in {"dlAck1", "dlAck2", "dlAck3"}

LastAck == ackLog[Len(ackLog)]

\* C19 as stated: a wait that succeeds has read a byte received after the call
\* was made, so none was pending when it was made.
C19_AckAfterCall ==
  [][(pc \in AckWaits /\ ackLog' # ackLog /\ LastAck' = 255) => rx = <<>>]_vars

\* C19: waitForAck takes at most one byte, the first one not yet read, whether
\* it was pending when the call was made or came in no later than 1000 ms
\* after it; it succeeds if and only if that byte is 0xFF; with any other
\* byte, or with none after more than 1000 ms, ACK Fail is sent and the
\* caller restarts the device, sending nothing more.
C19_AckPrimitive ==
  [][(pc \in AckWaits /\ ackLog' # ackLog)
     => /\ ackLog' = Append(ackLog, LastAck')
        /\ rx # <<>> => LastAck' = Head(rx)
        /\ LastAck' = NoByte <=> (rx = <<>> /\ ackElapsed > 1000)
        /\ IF LastAck' = 255
           THEN /\ pc' # "reset"
                /\ rx' = IF rx # <<>> THEN Tail(rx) ELSE <<>>
                /\ \A j \in 1..Len(tx') : tx'[j] # AckFailLine
           ELSE /\ pc' = "reset"
                /\ tx' = Append(tx, AckFailLine)
                /\ eeprom' = eeprom]_vars

\* "d-" came with two 0xFF behind it: the first wait of the download took the
\* first of them and sent the header of slot 0, the second is still unread
C19_Witness ==
  /\ pc = "dlAck2"
  /\ ackLog = <<255>>
  /\ rx = <<255>>
  /\ Len(tx) = 2
  /\ tx[1] = ReadyLine(<<100>>)

\* this step is the overflow abort of an upload: the exchange ends out of the
\* receive loop without an echo
OverflowAbort ==
  /\ pc \in {"upMeta", "upRead"}
  /\ pc' \notin {"upMeta", "upRead", "upAck"}

\* C20: the overflow abort is taken with a byte pending behind the full
\* buffer and leaves that byte unread; the reload that follows leaves it too,
\* and the next tick of loop() with input pending does not run buttons and
\* rendering but enters handleSerial, which reads the leftover as a code.
C20_AbortLeavesInput ==
  /\ [][OverflowAbort
        => /\ pc' = "reload"
           /\ rx' # <<>>
           /\ tx' = Append(tx, EmptyLine)]_vars
  /\ [][pc = "reload" => rx' = rx]_vars
  /\ [][(pc = "loop" /\ rx # <<>> /\ pc' # "loop")
        => /\ ~polled'
           /\ \/ pc' = "readCode" /\ code' # <<>>
              \/ tx' # <<>> /\ tx'[1].kind = "ready_"]_vars

====
